---- MODULE Spec2Model ----
(***************************************************************************)
(* A model of jinja2/environment.py: Environment (subscribe, compile,      *)
(* get_template, from_string, make_globals), Template (generate) and       *)
(* TemplateStream (next, enable_buffering, disable_buffering).             *)
(*                                                                         *)
(* Three state machines share the module:                                  *)
(*   SpecStream    - one TemplateStream over a finite upstream generator   *)
(*   SpecTemplate  - one Environment, its templates and their renders      *)
(*   SpecSubscribe - Environment.subscribe applied to one (obj, argument)  *)
(***************************************************************************)
EXTENDS Integers, Sequences, FiniteSets, TLC

(***************************************************************************)
(* Bounds of the model.                                                    *)
(***************************************************************************)
\* longest upstream fragment sequence
MaxFrags == 4
\* largest buffer size handed to enable_buffering
MaxSize == 3
\* values a name may be bound to are 1..MaxVal
MaxVal == 2
\* templates created plus render calls started in one run
MaxCalls == 3

(***************************************************************************)
(* Text.  A fragment is a unicode string, modelled as a sequence of        *)
(* characters (small integers); u'' is <<>>.                               *)
(***************************************************************************)
Fragments == { <<>>, <<1>>, <<2, 3>> }

\* u''.join(buf)
RECURSIVE Join(_)
Join(buf) == IF buf = <<>> THEN <<>> ELSE Head(buf) \o Join(Tail(buf))

\* all sequences over S of length 0..n
SeqsUpTo(S, n) == UNION { [1..k -> S] : k \in 0..n }

\* number of non-empty fragments among s[a+1..b]
RECURSIVE NonEmptyCount(_, _, _)
NonEmptyCount(s, a, b) ==
    IF a >= b THEN 0
    ELSE (IF s[a + 1] # <<>> THEN 1 ELSE 0) + NonEmptyCount(s, a + 1, b)

(***************************************************************************)
(* TemplateStream                                                          *)
(***************************************************************************)
VARIABLES
    gen,        \* self._gen: the upstream generator's fragments, in order
    genPos,     \* how many fragments self._gen has produced so far
    buffered,   \* self.buffered
    nextFn,     \* self._next: [kind |-> "gen"] or the closure buffering_next
                \* with the size it captured
    out,        \* the chunks the caller's pulls have returned, in order
    last,       \* the last call on the stream, its argument, the state it
                \* found and how it ended
    hist        \* "fresh": no buffering call yet; "bufferedFromStart": one
                \* accepted enable_buffering before the first pull and no
                \* other buffering call since; "mixed": anything else

streamVars == <<gen, genPos, buffered, nextFn, out, last, hist>>

Sizes == (0 - 1)..MaxSize

GenFn == [kind |-> "gen", size |-> 0]

BufferingFn(size) == [kind |-> "buffering", size |-> size]

\* TemplateStream.__init__
InitStream ==
    /\ gen \in SeqsUpTo(Fragments, MaxFrags)
    /\ genPos = 0
    /\ buffered = FALSE
    /\ nextFn = GenFn
    /\ out = <<>>
    /\ last = [op |-> "init", arg |-> 0, raised |-> "none",
               pos |-> 0, buffered |-> FALSE, nextFn |-> GenFn, nout |-> 0]
    /\ hist = "fresh"

\* self._gen.next(): the next fragment, or StopIteration once exhausted
GenNext(pos) ==
    IF pos < Len(gen)
    THEN [raised |-> FALSE, item |-> gen[pos + 1], pos |-> pos + 1]
    ELSE [raised |-> TRUE, item |-> <<>>, pos |-> pos]

\* a handler that re-raises unless at least two fragments were collected
OnStopIterationOffByOne(pos, buf, c_size) ==
    IF c_size <= 1
    THEN [raised |-> TRUE, item |-> <<>>, pos |-> pos]
    ELSE [raised |-> FALSE, item |-> Join(buf), pos |-> pos]

\* buffering_next's handler: except StopIteration: if not c_size: raise;
\* then return u''.join(buf)
OnStopIteration(pos, buf, c_size) ==
    IF c_size = 0
    THEN [raised |-> TRUE, item |-> <<>>, pos |-> pos]
    ELSE [raised |-> FALSE, item |-> Join(buf), pos |-> pos]

\* a test that keeps (and counts) every item, empty ones included
IsTrueAlways(item) == TRUE

\* the item is kept when it is true, i.e. non-empty
IsTrue(item) == item # <<>>

\* a loop that collects the fragments in reverse order
RECURSIVE BufferingLoopPrepend(_, _, _, _)
BufferingLoopPrepend(pos, buf, c_size, size) ==
    LET r == GenNext(pos) IN
    IF r.raised
    THEN OnStopIteration(r.pos, buf, c_size)
    ELSE LET buf2 == IF IsTrue(r.item) THEN <<r.item>> \o buf ELSE buf
             c2   == IF IsTrue(r.item) THEN c_size + 1 ELSE c_size
         IN  IF c2 >= size
             THEN OnStopIteration(r.pos, buf2, c2)
             ELSE BufferingLoopPrepend(r.pos, buf2, c2, size)

\* buffering_next's loop, from upstream position pos with buf and c_size
RECURSIVE BufferingLoop(_, _, _, _)
BufferingLoop(pos, buf, c_size, size) ==
    LET r == GenNext(pos) IN
    IF r.raised
    THEN OnStopIteration(r.pos, buf, c_size)
    ELSE LET buf2 == IF IsTrue(r.item) THEN Append(buf, r.item) ELSE buf
             c2   == IF IsTrue(r.item) THEN c_size + 1 ELSE c_size
         IN  IF c2 >= size
             THEN OnStopIteration(r.pos, buf2, c2)
             ELSE BufferingLoop(r.pos, buf2, c2, size)

\* buffering_next()
buffering_next(size) == BufferingLoop(genPos, <<>>, 0, size)

\* what self._next() does
CallNext ==
    IF nextFn.kind = "gen" THEN GenNext(genPos) ELSE buffering_next(nextFn.size)

Pre(op, arg, raised) ==
    [op |-> op, arg |-> arg, raised |-> raised, pos |-> genPos,
     buffered |-> buffered, nextFn |-> nextFn, nout |-> Len(out)]

\* TemplateStream.next
next ==
    LET r == CallNext IN
    /\ genPos' = r.pos
    /\ out' = IF r.raised THEN out ELSE Append(out, r.item)
    /\ last' = Pre("next", 0, IF r.raised THEN "StopIteration" ELSE "none")
    /\ hist' = IF hist = "fresh" THEN "mixed" ELSE hist
    /\ UNCHANGED <<gen, buffered, nextFn>>

\* a guard that lets size 1 through
SizeTooSmallOffByOne(size) == size <= 0

\* the guard of enable_buffering
SizeTooSmall(size) == size <= 1

\* TemplateStream.enable_buffering
enable_buffering ==
    \E size \in Sizes :
        IF SizeTooSmall(size)
        THEN /\ last' = Pre("enable_buffering", size, "ValueError")
             /\ UNCHANGED <<gen, genPos, buffered, nextFn, out, hist>>
        ELSE /\ buffered' = TRUE
             /\ nextFn' = BufferingFn(size)
             /\ last' = Pre("enable_buffering", size, "none")
             /\ hist' = IF hist = "fresh" THEN "bufferedFromStart" ELSE "mixed"
             /\ UNCHANGED <<gen, genPos, out>>

\* disable_buffering leaving self._next as it was
DisabledFnStale == nextFn

\* the routine disable_buffering attaches
DisabledFn == GenFn

\* TemplateStream.disable_buffering
disable_buffering ==
    /\ nextFn' = DisabledFn
    /\ buffered' = FALSE
    /\ last' = Pre("disable_buffering", 0, "none")
    /\ hist' = "mixed"
    /\ UNCHANGED <<gen, genPos, out>>

\* a stream that is not part of the run: an exhausted upstream, no call made
IdleStream ==
    /\ gen = <<>>
    /\ genPos = 0
    /\ buffered = FALSE
    /\ nextFn = GenFn
    /\ out = <<>>
    /\ last = [op |-> "init", arg |-> 0, raised |-> "none",
               pos |-> 0, buffered |-> FALSE, nextFn |-> GenFn, nout |-> 0]
    /\ hist = "fresh"

(***************************************************************************)
(* Properties of TemplateStream (checked under SpecStream)                 *)
(***************************************************************************)
\* the fragments self._gen has produced so far
Consumed == SubSeq(gen, 1, genPos)

\* the chunk the last pull returned
LastChunk == out[Len(out)]

\* C1: with enable_buffering(size >= 2) called on a fresh stream and nothing
\* but pulls after it, once a pull signals termination the concatenation of
\* all returned chunks equals the concatenation of the upstream fragments
\* in their original order.
C1_BufferingKeepsContent ==
    (hist = "bufferedFromStart" /\ last.op = "next"
        /\ last.raised = "StopIteration")
    => Join(out) = Join(gen)

\* C1's case: a buffered-from-the-start stream pulled to its end, whose
\* upstream held an empty fragment and whose chunks are fewer than the
\* non-empty fragments (the boundaries moved), the last chunk a partial one.
C1_Witness ==
    /\ hist = "bufferedFromStart"
    /\ last.op = "next" /\ last.raised = "StopIteration"
    /\ Len(out) = 2
    /\ NonEmptyCount(gen, 0, Len(gen)) = 3
    /\ \E i \in 1..Len(gen) : gen[i] = <<>>

\* C2: enable_buffering(size) raises exactly when size <= 1, and a rejected
\* call leaves the buffered flag, the active pull routine, the upstream
\* position and the output as they were before the call.
C2_RejectedEnableChangesNothing ==
    last.op = "enable_buffering"
    => /\ (last.raised = "ValueError") <=> (last.arg <= 1)
       /\ (last.raised = "none") <=> (last.arg >= 2)
       /\ last.arg <= 1
          => /\ buffered = last.buffered
             /\ nextFn = last.nextFn
             /\ genPos = last.pos
             /\ Len(out) = last.nout

\* C2's case: enable_buffering(1) rejected on a stream that was buffered and
\* had already consumed upstream fragments.
C2_Witness ==
    /\ last.op = "enable_buffering" /\ last.arg = 1
    /\ last.raised = "ValueError"
    /\ last.buffered /\ buffered /\ nextFn.kind = "buffering"
    /\ genPos > 0

\* C6: a pull in buffered mode with size n returns the concatenation of
\* the fragments it consumed, which hold exactly n non-empty ones and end
\* with the n-th, or fewer than n but at least one when the upstream
\* exhausted during the pull; it signals termination only when the upstream
\* exhausted with nothing accumulated; it never returns an empty chunk.
C6_BufferedPull ==
    (last.op = "next" /\ last.buffered)
    => LET n   == last.nextFn.size
           cnt == NonEmptyCount(gen, last.pos, genPos)
       IN  /\ last.nextFn.kind = "buffering" /\ n >= 2
           /\ IF last.raised = "none"
              THEN /\ Len(out) = last.nout + 1
                   /\ LastChunk = Join(SubSeq(gen, last.pos + 1, genPos))
                   /\ LastChunk # <<>>
                   /\ \/ cnt = n /\ gen[genPos] # <<>>
                      \/ cnt < n /\ cnt >= 1 /\ genPos = Len(gen)
              ELSE /\ last.raised = "StopIteration"
                   /\ Len(out) = last.nout
                   /\ cnt = 0
                   /\ genPos = Len(gen)

\* C6's case: a buffered pull with size 2 that skipped an empty fragment and
\* returned two non-empty ones joined, with upstream fragments left over.
C6_Witness ==
    /\ last.op = "next" /\ last.buffered /\ last.raised = "none"
    /\ last.nextFn.size = 2
    /\ genPos - last.pos = 3
    /\ genPos < Len(gen)

\* C9: a pull in unbuffered mode (buffered flag false: a new stream, or one
\* after disable_buffering) consumes exactly one upstream fragment and
\* returns it unchanged, empty or not, and signals termination exactly when
\* the upstream is exhausted.
C9_UnbufferedPull ==
    (last.op = "next" /\ ~last.buffered)
    => /\ (last.raised = "StopIteration") <=> (last.pos = Len(gen))
       /\ (last.raised = "none") <=> (last.pos < Len(gen))
       /\ last.raised = "none"
          => /\ genPos = last.pos + 1
             /\ Len(out) = last.nout + 1
             /\ LastChunk = gen[genPos]
       /\ last.raised = "StopIteration"
          => /\ genPos = last.pos
             /\ Len(out) = last.nout

\* C9's case: an unbuffered pull that returned an empty fragment, on a
\* stream whose first chunk was joined by an earlier buffered pull (so
\* disable_buffering was called in between).
C9_Witness ==
    /\ last.op = "next" /\ ~last.buffered /\ last.raised = "none"
    /\ Len(out) >= 2
    /\ Len(out[1]) = 3
    /\ LastChunk = <<>>

\* C10: whatever the interleaving of pulls, accepted and rejected
\* enable_buffering calls and disable_buffering calls, the concatenation of
\* everything returned so far equals the concatenation of the upstream
\* fragments consumed so far, in order.
C10_NothingHeldBack == Join(out) = Join(Consumed)

\* C10's case: modes were switched mid-stream (a joined chunk from a
\* buffered pull, later an unbuffered pull of a single fragment, then a
\* rejected enable_buffering that left the stream unbuffered), and
\* fragments remain upstream.
C10_Witness ==
    /\ hist = "mixed"
    /\ Len(out) >= 2
    /\ Len(out[1]) = 3
    /\ last.op = "enable_buffering" /\ last.raised = "ValueError"
    /\ ~buffered
    /\ LastChunk = <<1>>
    /\ genPos < Len(gen)

(***************************************************************************)
(* Environment and Template                                                *)
(*                                                                         *)
(* A dict is a function from Names to 0..MaxVal, 0 for a missing key.      *)
(* Dicts are objects: heap[r] is the content of the dict with reference r, *)
(* so that two holders of one reference see each other's changes.          *)
(***************************************************************************)
Names == {"x"}

Dicts == [Names -> 0..MaxVal]

EmptyDict == [n \in Names |-> 0]

Keys(d) == {n \in Names : d[n] # 0}

\* an optional dict argument: None, or a dict
Args == {[none |-> TRUE, d |-> EmptyDict]} \cup {[none |-> FALSE, d |-> d] : d \in Dicts}

VARIABLES
    optimized,  \* environment.optimized
    debug,      \* __debug__: false when the interpreter runs with -O
    loader,     \* environment.loader is not None
    heap,       \* the dicts alive, by reference
    templates,  \* the Template objects: globals is the reference held in
                \* self.globals; own records whether a globals argument
                \* was given when the template was made
    renders,    \* the generators generate returned: the context handed to
                \* the root routine and the template rendered
    tlast       \* the last call, its argument, the template it made or
                \* rendered, how it ended, and how many templates and
                \* renders it found

templateVars == <<optimized, debug, loader, heap, templates, renders, tlast>>

\* the reference environment.globals holds
EnvGlobalsRef == 1

TPre(op, arg, raised, tpl) ==
    [op |-> op, arg |-> arg, raised |-> raised, tpl |-> tpl,
     ntemplates |-> Len(templates), nrenders |-> Len(renders)]

\* Environment.__init__: self.globals = DEFAULT_NAMESPACE.copy(), whatever
\* the default namespace holds; optimized and loader are its parameters
InitTemplate ==
    /\ optimized \in BOOLEAN
    /\ debug \in BOOLEAN
    /\ loader \in BOOLEAN
    /\ heap \in {<<d>> : d \in Dicts}
    /\ templates = <<>>
    /\ renders = <<>>
    /\ tlast = TPre("init", [none |-> TRUE, d |-> EmptyDict], "none", 0)

\* an update in which the keys already present win
UpdateKeepOld(base, over) ==
    [n \in Names |-> IF base[n] # 0 THEN base[n] ELSE over[n]]

\* dict(base, **over), and base.copy() followed by .update(over)
Update(base, over) ==
    [n \in Names |-> IF over[n] # 0 THEN over[n] ELSE base[n]]

\* environment.globals[n] = v, or del environment.globals[n] (v = 0), by
\* the application
set_global ==
    \E n \in Names, v \in 0..MaxVal :
        /\ heap[EnvGlobalsRef][n] # v
        /\ heap' = [heap EXCEPT ![EnvGlobalsRef][n] = v]
        /\ tlast' = TPre("set_global", [none |-> FALSE, d |-> EmptyDict], "none", 0)
        /\ UNCHANGED <<optimized, debug, loader, templates, renders>>

\* a make_globals that merges the argument into environment.globals itself
make_globals_in_place(a) ==
    IF a.none
    THEN [heap |-> heap, ref |-> EnvGlobalsRef]
    ELSE [heap |-> [heap EXCEPT ![EnvGlobalsRef] = Update(heap[EnvGlobalsRef], a.d)],
          ref |-> EnvGlobalsRef]

\* Environment.make_globals: the heap after the call and the reference
\* returned
make_globals(a) ==
    IF a.none
    THEN [heap |-> heap, ref |-> EnvGlobalsRef]
    ELSE [heap |-> Append(heap, Update(heap[EnvGlobalsRef], a.d)),
          ref |-> Len(heap) + 1]

\* Environment.compile: the name node is bound only when self.optimized, and
\* read in either case
compile == IF optimized THEN "none" ELSE "UnboundLocalError"

\* Template.__init__
NewTemplate(a, g) == [globals |-> g.ref, own |-> ~a.none]

\* Environment.from_string, for a source text that parses.  When compile
\* raises, the dict make_globals built is dropped with the call, and the
\* heap keeps only reachable dicts.
from_string ==
    \E a \in Args :
        LET g == make_globals(a)
            c == compile
        IN  IF c # "none"
            THEN /\ tlast' = TPre("from_string", a, c, 0)
                 /\ UNCHANGED <<optimized, debug, loader, heap, templates, renders>>
            ELSE /\ Len(templates) + Len(renders) < MaxCalls
                 /\ heap' = g.heap
                 /\ templates' = Append(templates, NewTemplate(a, g))
                 /\ tlast' = TPre("from_string", a, "none", Len(templates) + 1)
                 /\ UNCHANGED <<optimized, debug, loader, renders>>

\* loader.load(environment, name, globals): a Template holding the globals
\* it was handed
LoaderLoad(a, g) == NewTemplate(a, g)

\* Environment.get_template
get_template ==
    \E a \in Args :
        IF ~loader
        THEN /\ tlast' = TPre("get_template", a, "TypeError", 0)
             /\ UNCHANGED <<optimized, debug, loader, heap, templates, renders>>
        ELSE LET g == make_globals(a) IN
             /\ Len(templates) + Len(renders) < MaxCalls
             /\ heap' = g.heap
             /\ templates' = Append(templates, LoaderLoad(a, g))
             /\ tlast' = TPre("get_template", a, "none", Len(templates) + 1)
             /\ UNCHANGED <<optimized, debug, loader, renders>>

\* generate: context = self.globals.copy(); context.update(local_context)
MakeContext(g, locals) ==
    [heap |-> Append(heap, Update(heap[g], locals)), ref |-> Len(heap) + 1]

\* an override check against the environment's globals
OverridesOfEnv(locals, g) == Keys(locals) \cap Keys(heap[EnvGlobalsRef])

\* generate: overrides = set(local_context) & set(self.globals)
Overrides(locals, g) == Keys(locals) \cap Keys(heap[g])

\* Template.generate, which render and stream call: the context is
\* assembled, the override check made, the root routine invoked.  When the
\* check raises, the context built is dropped with the call.
generate ==
    \E t \in 1..Len(templates), locals \in Dicts :
        LET g == templates[t].globals
            c == MakeContext(g, locals)
            a == [none |-> FALSE, d |-> locals]
        IN  IF debug /\ optimized /\ Overrides(locals, g) # {}
            THEN /\ tlast' = TPre("generate", a, "AssertionError", t)
                 /\ UNCHANGED <<optimized, debug, loader, heap, templates, renders>>
            ELSE /\ Len(templates) + Len(renders) < MaxCalls
                 /\ heap' = c.heap
                 /\ renders' = Append(renders, [context |-> c.ref, tpl |-> t])
                 /\ tlast' = TPre("generate", a, "none", t)
                 /\ UNCHANGED <<optimized, debug, loader, templates>>

\* an environment that is not part of the run
IdleTemplate ==
    /\ optimized = TRUE
    /\ debug = TRUE
    /\ loader = FALSE
    /\ heap = <<EmptyDict>>
    /\ templates = <<>>
    /\ renders = <<>>
    /\ tlast = TPre("init", [none |-> TRUE, d |-> EmptyDict], "none", 0)

(***************************************************************************)
(* Environment.subscribe                                                   *)
(*                                                                         *)
(* An object is what its two access modes do for the argument at hand:     *)
(* attr is the outcome of getattr(obj, name), item that of obj[argument].  *)
(* An outcome is a value or a raised exception.                            *)
(***************************************************************************)
Exceptions ==
    {"AttributeError", "UnicodeEncodeError", "TypeError", "KeyError",
     "IndexError", "ValueError"}

\* the exception classes an except clause naming cls catches
Subclasses(cls) ==
    CASE cls = "LookupError"  -> {"KeyError", "IndexError"}
      [] cls = "UnicodeError" -> {"UnicodeEncodeError"}
      [] OTHER                -> {cls}

Returned(v) == [kind |-> "value", val |-> v, exc |-> "none"]

Raised(e) == [kind |-> "raise", val |-> 0, exc |-> e]

Outcomes == {Returned(v) : v \in 1..MaxVal} \cup {Raised(e) : e \in Exceptions}

Objects == [attr : Outcomes, item : Outcomes]

\* "k" is an ASCII name; "nonascii" is a unicode string str() cannot encode
Arguments == {"k", "nonascii"}

NoObject == [attr |-> Raised("AttributeError"), item |-> Raised("TypeError")]

VARIABLES
    obj,        \* the object subscribe is called with
    argument,   \* the key it is called with
    pc,         \* "ready" before the call, "done" after it
    result      \* what the caller of subscribe gets: a value, an Undefined
                \* carrying (uobj, ukey), or a raised exception

subscribeVars == <<obj, argument, pc, result>>

NoResult ==
    [kind |-> "none", val |-> 0, exc |-> "none", uobj |-> NoObject, ukey |-> "k"]

Value(v) ==
    [kind |-> "value", val |-> v, exc |-> "none", uobj |-> NoObject, ukey |-> "k"]

Propagated(e) ==
    [kind |-> "raise", val |-> 0, exc |-> e, uobj |-> NoObject, ukey |-> "k"]

\* self.undefined(obj, argument)
Undefined(o, k) ==
    [kind |-> "undefined", val |-> 0, exc |-> "none", uobj |-> o, ukey |-> k]

InitSubscribe ==
    /\ obj \in Objects
    /\ argument \in Arguments
    /\ pc = "ready"
    /\ result = NoResult

\* str(argument)
Str(k) == IF k = "nonascii" THEN Raised("UnicodeEncodeError") ELSE Returned(0)

\* getattr(obj, str(argument))
GetAttr(o, k) == IF Str(k).kind = "raise" THEN Str(k) ELSE o.attr

\* obj[argument]
GetItem(o, k) == o.item

\* an outer handler that catches every exception
OuterCatchesAll(e) == TRUE

\* except (AttributeError, UnicodeError)
OuterCatches(e) == e \in Subclasses("AttributeError") \cup Subclasses("UnicodeError")

\* except (TypeError, LookupError)
InnerCatches(e) == e \in Subclasses("TypeError") \cup Subclasses("LookupError")

\* Environment.subscribe
subscribe(o, k) ==
    LET a == GetAttr(o, k) IN
    IF a.kind = "value" THEN Value(a.val)
    ELSE IF ~OuterCatches(a.exc) THEN Propagated(a.exc)
    ELSE LET i == GetItem(o, k) IN
         IF i.kind = "value" THEN Value(i.val)
         ELSE IF ~InnerCatches(i.exc) THEN Propagated(i.exc)
         ELSE Undefined(o, k)

\* one call of environment.subscribe(obj, argument)
CallSubscribe ==
    /\ pc = "ready"
    /\ result' = subscribe(obj, argument)
    /\ pc' = "done"
    /\ UNCHANGED <<obj, argument>>

\* no call of subscribe is part of the run
IdleSubscribe ==
    /\ obj = NoObject
    /\ argument = "k"
    /\ pc = "done"
    /\ result = NoResult

(***************************************************************************)
(* The specifications                                                      *)
(***************************************************************************)
vars == <<streamVars, templateVars, subscribeVars>>

\* one TemplateStream and the calls made on it
StartStream == InitStream /\ IdleTemplate /\ IdleSubscribe

NextStream ==
    \/ next /\ UNCHANGED <<templateVars, subscribeVars>>
    \/ enable_buffering /\ UNCHANGED <<templateVars, subscribeVars>>
    \/ disable_buffering /\ UNCHANGED <<templateVars, subscribeVars>>

SpecStream == StartStream /\ [][NextStream]_vars

\* one Environment, the templates made from it and their renders
StartTemplate == InitTemplate /\ IdleStream /\ IdleSubscribe

NextTemplate ==
    \/ set_global /\ UNCHANGED <<streamVars, subscribeVars>>
    \/ from_string /\ UNCHANGED <<streamVars, subscribeVars>>
    \/ get_template /\ UNCHANGED <<streamVars, subscribeVars>>
    \/ generate /\ UNCHANGED <<streamVars, subscribeVars>>

SpecTemplate == StartTemplate /\ [][NextTemplate]_vars

\* one call of Environment.subscribe
StartSubscribe == InitSubscribe /\ IdleStream /\ IdleTemplate

NextSubscribe == CallSubscribe /\ UNCHANGED <<streamVars, templateVars>>

SpecSubscribe == StartSubscribe /\ [][NextSubscribe]_vars

(***************************************************************************)
(* Properties of Environment and Template (checked under SpecTemplate)     *)
(***************************************************************************)
\* the content of template t's self.globals
GlobalsOf(t) == heap[templates[t].globals]

\* the context the last started render handed to the root routine
LastContext == heap[renders[Len(renders)].context]

\* the names the last call's argument shares with the template's globals
SharedNames == Keys(tlast.arg.d) \cap Keys(GlobalsOf(tlast.tpl))

\* the last generate call invoked the root routine of its template
RootInvoked ==
    /\ Len(renders) = tlast.nrenders + 1
    /\ renders[Len(renders)].tpl = tlast.tpl

\* C3 as amended: generate raises before the root routine is invoked exactly
\* when environment.optimized is true, __debug__ is true (the interpreter
\* was not started with -O) and the call-time locals share a name with the
\* template's globals; in every other case no error is raised and the root
\* routine is invoked.
C3_OverrideCheckUnderDebug ==
    tlast.op = "generate"
    => /\ (tlast.raised = "AssertionError")
              <=> (optimized /\ debug /\ SharedNames # {})
       /\ tlast.raised = "AssertionError" => Len(renders) = tlast.nrenders
       /\ tlast.raised # "AssertionError"
              => tlast.raised = "none" /\ RootInvoked

\* C3's case: under optimized and __debug__, a render whose local shadows a
\* global was refused after an earlier render of the template went through.
C3_Witness ==
    /\ tlast.op = "generate" /\ tlast.raised = "AssertionError"
    /\ optimized /\ debug
    /\ tlast.arg.d["x"] = 2 /\ GlobalsOf(tlast.tpl)["x"] = 1
    /\ Len(renders) = 1

\* C3 as stated: with environment.optimized true, generate raises before the
\* root routine is invoked whenever locals and globals share a name, and
\* invokes the root routine without error when they share none.
C3_OverrideCheckAlways ==
    (tlast.op = "generate" /\ optimized)
    => /\ SharedNames # {}
              => tlast.raised = "AssertionError" /\ Len(renders) = tlast.nrenders
       /\ SharedNames = {}
              => tlast.raised = "none" /\ RootInvoked

\* C4 as stated: with environment.optimized false, from_string compiles and
\* returns a template, and a render whose local x=2 shadows a global x=1
\* succeeds and observes x=2.
C4_UnoptimizedCompileSucceeds ==
    /\ (tlast.op = "from_string" /\ ~optimized)
           => /\ tlast.raised = "none"
              /\ Len(templates) = tlast.ntemplates + 1
    /\ (tlast.op = "generate" /\ ~optimized
            /\ tlast.arg.d["x"] = 2 /\ GlobalsOf(tlast.tpl)["x"] = 1)
           => /\ tlast.raised = "none"
              /\ RootInvoked
              /\ LastContext["x"] = 2

\* C7 as amended: a template made with a per-template globals argument
\* holds a globals mapping of its own, distinct from environment.globals,
\* whose content no later step changes (so later renders do not observe a
\* change of the environment's globals); a template made without one holds
\* environment.globals itself.
C7_OwnGlobalsAreSnapshot ==
    [][ /\ \A t \in 1..Len(templates') :
              IF templates'[t].own
              THEN templates'[t].globals # EnvGlobalsRef
              ELSE templates'[t].globals = EnvGlobalsRef
        /\ \A t \in 1..Len(templates) :
              templates[t].own
                  => /\ templates'[t] = templates[t]
                     /\ heap'[templates[t].globals] = heap[templates[t].globals]
      ]_vars

\* C7's case: the environment's global x was changed after a template with
\* globals of its own was made and rendered, and the template still holds
\* the old value.
C7_Witness ==
    /\ tlast.op = "set_global"
    /\ Len(templates) >= 1 /\ templates[1].own
    /\ Len(renders) >= 1
    /\ GlobalsOf(1)["x"] = 1
    /\ heap[EnvGlobalsRef]["x"] = 2

\* C7 as stated: every template, made with or without a per-template
\* globals argument, holds a globals mapping distinct from
\* environment.globals whose content no later step changes.
C7_AllGlobalsAreSnapshot ==
    [][ /\ \A t \in 1..Len(templates') :
              templates'[t].globals # EnvGlobalsRef
        /\ \A t \in 1..Len(templates) :
              /\ templates'[t] = templates[t]
              /\ heap'[templates[t].globals] = heap[templates[t].globals]
      ]_vars

\* the value layered for name n: over[n] if given, else base[n]
Layered(over, base, n) == IF over[n] # 0 THEN over[n] ELSE base[n]

\* C8, the template's globals: right after from_string or get_template the
\* template's globals are the environment's globals overlaid by the
\* per-template globals given.
C8_GlobalsLayering ==
    (tlast.op \in {"from_string", "get_template"} /\ tlast.raised = "none")
    => /\ Len(templates) = tlast.ntemplates + 1
       /\ tlast.tpl = Len(templates)
       /\ \A n \in Names :
              GlobalsOf(tlast.tpl)[n] =
                  IF tlast.arg.none THEN heap[EnvGlobalsRef][n]
                  ELSE Layered(tlast.arg.d, heap[EnvGlobalsRef], n)

\* C8, the context: the context handed to the root routine is the
\* template's globals overlaid by the call-time locals.
C8_ContextLayering ==
    (tlast.op = "generate" /\ tlast.raised = "none")
    => /\ RootInvoked
       /\ \A n \in Names :
              LastContext[n] = Layered(tlast.arg.d, GlobalsOf(tlast.tpl), n)

\* C8, freshness: no two renders share a context mapping, and no context is
\* the environment's or a template's globals mapping.
C8_ContextsFresh ==
    \A i \in 1..Len(renders) :
        /\ renders[i].context # EnvGlobalsRef
        /\ \A t \in 1..Len(templates) : renders[i].context # templates[t].globals
        /\ \A j \in 1..Len(renders) :
               i # j => renders[i].context # renders[j].context

\* C8, frame: a generate call changes no mapping that existed before it.
C8_GenerateFrame ==
    tlast'.op = "generate"
        => \A r \in 1..Len(heap) : heap'[r] = heap[r]

FieldAttempt ==
    IF argument = "nonascii" THEN Raised("UnicodeEncodeError") ELSE obj.attr

\* C5 as amended: subscribe returns the named-field result if that access
\* succeeds; if it fails with AttributeError or UnicodeError, subscribe
\* returns obj[argument] if keyed access succeeds and Undefined(obj,
\* argument) if keyed access fails with TypeError or LookupError; any other
\* exception of either access reaches the caller, and after such an
\* exception of the field access the keyed access is not tried.
C5_SubscribeFallsBack ==
    pc = "done"
    => LET a == FieldAttempt
           i == obj.item
       IN  CASE a.kind = "value" -> result = Value(a.val)
             [] a.kind = "raise" /\ a.exc \notin {"AttributeError", "UnicodeEncodeError"}
                  -> result = Propagated(a.exc)
             [] OTHER ->
                  CASE i.kind = "value" -> result = Value(i.val)
                    [] i.kind = "raise" /\ i.exc \in {"TypeError", "KeyError", "IndexError"}
                         -> result = Undefined(obj, argument)
                    [] OTHER -> result = Propagated(i.exc)

\* C5's case: field access raised AttributeError, keyed access raised
\* KeyError, and the caller got Undefined(obj, argument).
C5_Witness ==
    /\ pc = "done"
    /\ argument = "k"
    /\ obj.attr = Raised("AttributeError")
    /\ obj.item = Raised("KeyError")
    /\ result = Undefined(obj, argument)

\* C5 as stated: the field result if field access succeeds; if it fails in
\* whatever way, obj[argument] if keyed access succeeds; if both fail in
\* whatever way, Undefined(obj, argument); the caller never sees a raised
\* error.
C5_SubscribeNeverRaises ==
    pc = "done"
    => LET a == FieldAttempt
           i == obj.item
       IN  /\ result.kind # "raise"
           /\ a.kind = "value" => result = Value(a.val)
           /\ (a.kind = "raise" /\ i.kind = "value") => result = Value(i.val)
           /\ (a.kind = "raise" /\ i.kind = "raise")
                  => result = Undefined(obj, argument)

====
